---- MODULE Spec2Model ----
(***************************************************************************)
(* A model of vmtest.c: the probe pipeline run by main, the worker threads *)
(* of the thread-scheduling probe, the child processes of the multiprocess *)
(* probe, the statistics and the classifier.                               *)
(*                                                                         *)
(* A C double is modelled as an integer number of thousandths (SCALE).     *)
(***************************************************************************)
EXTENDS Integers, Sequences, FiniteSets, TLC

\* ------------------------------------------------------------------ sizes

\* #define THREAD_COUNT 4
THREAD_COUNT == 4

\* Samples per probe: ITERATIONS, ITERATIONS/10, ITERATIONS/20, ITERATIONS/2
\* in the source (10000, 1000, 500, 5000), bounded here.
BasicTests == 2
ThreadTests == 2
ProcTests == 2
ConsecTests == 2
\* The ten back-to-back operations of one consecutive-timing trial, bounded.
ConsecOps == 2
\* The 1000 allocations of the memory-entropy probe, bounded.
NumAddresses == 3

\* Differences of two readings of the monotonic clock (nanoseconds).
Durations == {1, 3}
\* Mean latencies of the 100 sequential and the 100 shuffled scans of the
\* cache probe (nanoseconds).
FriendlyMeans == {0, 2}
UnfriendlyMeans == {2, 4}
\* Numeric values of the addresses malloc returns; 0 stands for NULL.
AddressPool == {0, 16, 64}

\* One unit of a double is 1/SCALE.
SCALE == 10 * 10 * 10

\* ------------------------------------------------------- fixed-point math

Abs(x) == IF x < 0 THEN -x ELSE x

\* C division of doubles, on scaled integers: rounds toward zero.
Quot(a, b) == IF (a < 0) = (b < 0) THEN Abs(a) \div Abs(b) ELSE -(Abs(a) \div Abs(b))

RECURSIVE SqrtBetween(_, _, _)
SqrtBetween(n, lo, hi) ==
    IF lo >= hi THEN lo
    ELSE LET mid == (lo + hi + 1) \div 2
         IN  IF mid * mid <= n THEN SqrtBetween(n, mid, hi) ELSE SqrtBetween(n, lo, mid - 1)

\* The integer square root of n >= 0 (n below 2^30).
ISqrt(n) == SqrtBetween(n, 0, 32767)

RECURSIVE Pow2(_)
Pow2(k) == IF k = 0 THEN 1 ELSE 2 * Pow2(k - 1)

RECURSIVE FloorLog2(_)
FloorLog2(n) == IF n < 2 THEN 0 ELSE 1 + FloorLog2(n \div 2)

\* The fraction bits of log2 by repeated squaring: y is in [1, 2) with 14
\* fraction bits, the result has `bits` fraction bits.
RECURSIVE Log2Frac(_, _)
Log2Frac(y, bits) ==
    IF bits = 0 THEN 0
    ELSE LET sq == (y * y) \div 16384
         IN  IF sq >= 32768
             THEN Pow2(bits - 1) + Log2Frac(sq \div 2, bits - 1)
             ELSE Log2Frac(sq, bits - 1)

\* log2(n) for an integer n >= 1, in units of 1/SCALE, to the nearest unit.
Log2Fx(n) ==
    LET k == FloorLog2(n)
        y == IF k >= 14 THEN n \div Pow2(k - 14) ELSE n * Pow2(14 - k)
    IN  k * SCALE + (Log2Frac(y, 12) * SCALE + 2048) \div 4096

\* log2(10) in units of 1/SCALE.
Log2Of10 == Log2Fx(10)

\* log10 of the double (a * b) / c, for scaled doubles a, b, c > 0, scaled.
Log10Ratio(a, b, c) ==
    Quot((Log2Fx(a) + Log2Fx(b) - Log2Fx(c) - Log2Fx(SCALE)) * SCALE, Log2Of10)

\* ------------------------------------------------------------- statistics

RECURSIVE SumSeq(_)
SumSeq(s) == IF s = << >> THEN 0 ELSE Head(s) + SumSeq(Tail(s))

\* double calculate_mean(double *values, int count); values are scaled.
calculate_mean(values, count) ==
    IF count = 0 THEN 0 ELSE Quot(SumSeq(values), count)

\* double calculate_variance(double *values, int count, double mean)
calculate_variance(values, count, mean) ==
    IF count < 2 THEN 0
    ELSE LET sq == [i \in 1..count |-> Quot((values[i] - mean) * (values[i] - mean), SCALE)]
         IN  Quot(SumSeq(sq), count - 1)

\* double calculate_std_dev(double variance)
calculate_std_dev(variance) == ISqrt(variance * SCALE)

\* A coefficient of variation that would be the deviation itself for a
\* mean of 0.
calculate_cv_of_zero_mean(std_dev, mean) ==
    IF mean = 0 THEN std_dev ELSE Quot(std_dev * SCALE, mean)

\* double calculate_cv(double std_dev, double mean)
calculate_cv(std_dev, mean) ==
    IF mean = 0 THEN 0 ELSE Quot(std_dev * SCALE, mean)

Clamp(x, lo, hi) == IF x > hi THEN hi ELSE IF x < lo THEN lo ELSE x

\* double calculate_skewness(double *values, int count, double mean, double std_dev)
calculate_skewness(values, count, mean, std_dev) ==
    IF count < 3 \/ std_dev <= 0 THEN 0
    ELSE LET diff(i) == Quot((values[i] - mean) * SCALE, std_dev)
             cube == [i \in 1..count |->
                        Quot(Quot(diff(i) * diff(i), SCALE) * diff(i), SCALE)]
             skew == Quot(SumSeq(cube), count)
             corrected == Quot(skew * ISqrt(count * (count - 1) * SCALE * SCALE),
                               (count - 2) * SCALE)
         IN  Clamp(corrected, -100 * SCALE, 100 * SCALE)

\* double calculate_kurtosis(double *values, int count, double mean, double std_dev)
calculate_kurtosis(values, count, mean, std_dev) ==
    IF count < 4 \/ std_dev <= 0 THEN 0
    ELSE LET diff(i) == Quot((values[i] - mean) * SCALE, std_dev)
             sqr(i) == Quot(diff(i) * diff(i), SCALE)
             fourth == [i \in 1..count |-> Quot(sqr(i) * sqr(i), SCALE)]
             kurt == Quot(SumSeq(fourth), count) - 3 * SCALE
             corrected == Quot((count - 1) * ((count + 1) * kurt + 6 * SCALE),
                               (count - 2) * (count - 3))
         IN  Clamp(corrected, -10 * SCALE, 1000 * SCALE)

\* An index without the check of the variance: log10 of a division by a
\* variance of 0 is infinite and is bounded to 10.0.
calculate_pmi_unguarded(kurtosis, skewness, variance) ==
    IF kurtosis <= 0 \/ skewness <= 0 THEN -10 * SCALE
    ELSE IF variance <= 0 THEN 10 * SCALE
    ELSE Clamp(Log10Ratio(kurtosis, skewness, variance), -20 * SCALE, 10 * SCALE)

\* double calculate_pmi_safe(double kurtosis, double skewness, double variance)
calculate_pmi_safe(kurtosis, skewness, variance) ==
    IF variance <= 0 \/ kurtosis <= 0 \/ skewness <= 0 THEN -10 * SCALE
    ELSE LET numerator == kurtosis * skewness
         IN  IF numerator <= 0 THEN -10 * SCALE
             ELSE Clamp(Log10Ratio(kurtosis, skewness, variance),
                        -20 * SCALE, 10 * SCALE)

Min(S) == CHOOSE x \in S : \A y \in S : x <= y
Max(S) == CHOOSE x \in S : \A y \in S : x >= y

\* The number of histogram bins of calculate_entropy.
bins == 20

\* int bin_idx = (int)((values[i] - min_val) / bin_width);
\* if (bin_idx >= bins) bin_idx = bins - 1;
BinIndex(value, min_val, max_val) ==
    LET b == ((value - min_val) * bins) \div (max_val - min_val)
    IN  IF b >= bins THEN bins - 1 ELSE b

RECURSIVE SumOver(_, _)
SumOver(S, f) ==
    IF S = {} THEN 0
    ELSE LET x == CHOOSE y \in S : TRUE IN f[x] + SumOver(S \ {x}, f)

\* The histogram and the sum over its bins that are not empty; with
\* p = hist / count, -sum(p * log2(p)) is log2(count) - sum(hist * log2(hist)) / count.
BinnedEntropy(values, count, min_val, max_val) ==
    LET bin_of == [k \in 1..count |-> BinIndex(values[k], min_val, max_val)]
        used == {bin_of[k] : k \in 1..count}
        hist == [b \in used |-> Cardinality({k \in 1..count : bin_of[k] = b})]
        hlogh == [b \in used |-> hist[b] * Log2Fx(hist[b])]
    IN  Log2Fx(count) - Quot(SumOver(used, hlogh), count)

\* double calculate_entropy(double *values, int count); hist_ok is whether
\* calloc returned the histogram.
calculate_entropy(values, count, hist_ok) ==
    IF count = 0 THEN 0
    ELSE LET vals == {values[k] : k \in 1..count}
         IN  IF Min(vals) = Max(vals) THEN 0
             ELSE IF ~hist_ok THEN 0
             ELSE BinnedEntropy(values, count, Min(vals), Max(vals))

\* The five statistics every timing probe stores, from its samples.
FeatureRecord(values, count) ==
    LET mean == calculate_mean(values, count)
        variance == calculate_variance(values, count, mean)
        std_dev == calculate_std_dev(variance)
    IN  [mean |-> mean,
         variance |-> variance,
         cv |-> calculate_cv(std_dev, mean),
         skewness |-> calculate_skewness(values, count, mean, std_dev),
         kurtosis |-> calculate_kurtosis(values, count, mean, std_dev)]

\* ------------------------------------------------------------------ state

VARIABLES
    pc,              \* where main is
    test,            \* the trial index of the running probe's loop
    i,               \* the index of the inner loop over THREAD_COUNT
    timings,         \* the running probe's sample buffer (scaled doubles)
    heap,            \* the scratch buffers allocated and not yet freed
    measurements,    \* the global vmtest_measurements_t
    writes,          \* how many times each field of measurements was assigned
    thread_counter,  \* the global completion counter
    thread_mutex,    \* the owner of thread_mutex, or NoOwner
    threads,         \* pthread_t threads[THREAD_COUNT] of the current trial
    worker,          \* the state of the thread started in each slot
    reg,             \* each worker's copy of thread_counter while it increments
    child,           \* the state of the process forked in each slot
    address_values,  \* the addresses recorded by the memory-entropy probe
    verdict          \* what analyze_vm_indicators printed

vars == <<pc, test, i, timings, heap, measurements, writes, thread_counter,
          thread_mutex, threads, worker, reg, child, address_values, verdict>>

Slots == 0..(THREAD_COUNT - 1)

\* A sample slot of a malloc'ed buffer: never written, or holding the
\* difference of two clock readings. The difference is read only by the
\* statistics, and its value is chosen there.
Unset == "unset"
Stored == "stored"

\* What the statistics can read from a buffer of n stored samples.
Samples(buffer, n) ==
    {[k \in 1..n |-> d[k] * SCALE] : d \in [1..n -> Durations]}
\* A pthread_t that was declared and never assigned.
Indeterminate == -1
NoOwner == -1

Fields ==
    {"timing_basic_mean", "timing_basic_variance", "timing_basic_cv",
     "timing_basic_skewness", "timing_basic_kurtosis",
     "scheduling_thread_mean", "scheduling_thread_variance", "scheduling_thread_cv",
     "scheduling_thread_skewness", "scheduling_thread_kurtosis",
     "physical_machine_index",
     "scheduling_multiproc_mean", "scheduling_multiproc_variance",
     "scheduling_multiproc_cv", "scheduling_multiproc_skewness",
     "scheduling_multiproc_kurtosis",
     "timing_consecutive_mean", "timing_consecutive_variance", "timing_consecutive_cv",
     "timing_consecutive_skewness", "timing_consecutive_kurtosis",
     "cache_access_ratio", "cache_miss_ratio",
     "memory_address_entropy",
     "overall_timing_cv", "overall_scheduling_cv"}

\* vmtest_measurements_t measurements = {0};
ZeroMeasurements == [f \in Fields |-> 0]

\* m with the fields of the record `values` assigned.
Assign(m, values) == values @@ m

\* The assignment counts after assigning the fields in F once more.
Assigned(w, F) == [f \in F |-> w[f] + 1] @@ w

\* The five fields a timing probe assigns, under the probe's prefix.
ProbeFields(prefix, fr) ==
    (prefix \o "_mean" :> fr.mean) @@ (prefix \o "_variance" :> fr.variance) @@
    (prefix \o "_cv" :> fr.cv) @@ (prefix \o "_skewness" :> fr.skewness) @@
    (prefix \o "_kurtosis" :> fr.kurtosis)

NoBuffer == << >>
FreshBuffer(n) == [k \in 1..n |-> Unset]

Init ==
    /\ pc = "basic_alloc"
    /\ test = 0
    /\ i = 0
    /\ timings = NoBuffer
    /\ heap = {}
    /\ measurements = ZeroMeasurements
    /\ writes = [f \in Fields |-> 0]
    /\ thread_counter = 0
    /\ thread_mutex = NoOwner
    /\ threads = [s \in Slots |-> Indeterminate]
    /\ worker = [s \in Slots |-> "none"]
    /\ reg = [s \in Slots |-> 0]
    /\ child = [s \in Slots |-> "none"]
    /\ address_values = << >>
    /\ verdict = [confidence_score |-> 0, vm_indicators |-> 0, result |-> "none"]

threadVars == <<thread_counter, thread_mutex, threads, worker, reg>>
resultVars == <<measurements, writes>>

\* --------------------------------------------------- measure_timing_basic

\* A main that would go on with the multiprocess probe when the basic probe
\* has no buffer.
measure_timing_basic_alloc_skipping ==
    /\ pc = "basic_alloc"
    /\ \E ok \in BOOLEAN :
         IF ok
         THEN /\ heap' = heap \cup {"timings"}
              /\ timings' = FreshBuffer(BasicTests)
              /\ pc' = "basic_run"
         ELSE /\ pc' = "mp_alloc"
              /\ UNCHANGED <<heap, timings>>
    /\ UNCHANGED <<test, i, resultVars, threadVars, child, address_values, verdict>>

\* double *timings = malloc(ITERATIONS * sizeof(double)); if (!timings) return;
measure_timing_basic_alloc ==
    /\ pc = "basic_alloc"
    /\ \E ok \in BOOLEAN :
         IF ok
         THEN /\ heap' = heap \cup {"timings"}
              /\ timings' = FreshBuffer(BasicTests)
              /\ pc' = "basic_run"
         ELSE /\ pc' = "thr_alloc"
              /\ UNCHANGED <<heap, timings>>
    /\ UNCHANGED <<test, i, resultVars, threadVars, child, address_values, verdict>>

\* The timing loop, the statistics and free(timings).
measure_timing_basic_run ==
    /\ pc = "basic_run"
    /\ \E values \in Samples(timings, BasicTests) :
         LET fields == ProbeFields("timing_basic", FeatureRecord(values, BasicTests))
         IN  /\ measurements' = Assign(measurements, fields)
             /\ writes' = Assigned(writes, DOMAIN fields)
    /\ heap' = heap \ {"timings"}
    /\ timings' = NoBuffer
    /\ pc' = "thr_alloc"
    /\ UNCHANGED <<test, i, threadVars, child, address_values, verdict>>

\* ---------------------------------------------- measure_thread_scheduling

\* The states of a worker thread: "none" (no thread in the slot), "started"
\* (created, the loop of thread_workload not yet run), "computed" (the loop
\* done), "locked" (holds thread_mutex and has read thread_counter),
\* "exited" (returned, not joined), "joined".
Live == {"started", "computed", "locked", "exited"}

\* double *timings = malloc(num_tests * sizeof(double)); if (!timings) return;
measure_thread_scheduling_alloc ==
    /\ pc = "thr_alloc"
    /\ \E ok \in BOOLEAN :
         IF ok
         THEN /\ heap' = heap \cup {"timings"}
              /\ timings' = FreshBuffer(ThreadTests)
              /\ pc' = "thr_reset"
         ELSE /\ pc' = "mp_alloc"
              /\ UNCHANGED <<heap, timings>>
    /\ test' = 0
    /\ UNCHANGED <<i, resultVars, threadVars, child, address_values, verdict>>

\* pthread_t threads[THREAD_COUNT]; thread_counter = 0;
measure_thread_scheduling_reset ==
    /\ pc = "thr_reset"
    /\ threads' = [s \in Slots |-> Indeterminate]
    /\ worker' = [s \in Slots |-> IF worker[s] \in Live THEN worker[s] ELSE "none"]
    /\ thread_counter' = 0
    /\ pc' = "thr_start"
    /\ UNCHANGED <<test, i, timings, heap, resultVars, thread_mutex, reg, child,
                   address_values, verdict>>

\* long long start = get_time_ns();
measure_thread_scheduling_start ==
    /\ pc = "thr_start"
    /\ i' = 0
    /\ pc' = "thr_create"
    /\ UNCHANGED <<test, timings, heap, resultVars, threadVars, child,
                   address_values, verdict>>

\* One pass of the loop over pthread_create, which may fail.
measure_thread_scheduling_create ==
    /\ pc = "thr_create"
    /\ \E ok \in BOOLEAN :
         IF ok
         THEN /\ threads' = [threads EXCEPT ![i] = i]
              /\ worker' = [worker EXCEPT ![i] = "started"]
         ELSE UNCHANGED <<threads, worker>>
    /\ IF i + 1 < THREAD_COUNT
       THEN i' = i + 1 /\ pc' = pc
       ELSE i' = 0 /\ pc' = "thr_join"
    /\ UNCHANGED <<test, timings, heap, resultVars, thread_counter, thread_mutex, reg,
                   child, address_values, verdict>>

\* for (int i = 0; i < THREAD_COUNT; i++) pthread_join(threads[i], NULL);
\* A join loop that stops one slot short.
JoinBoundShort == THREAD_COUNT - 1

JoinBound == THREAD_COUNT

AfterJoin ==
    IF i + 1 < JoinBound THEN i' = i + 1 /\ pc' = pc ELSE i' = 0 /\ pc' = "thr_end"

\* pthread_join on the handle of a thread of this trial that is not joined
\* yet: blocks until the thread has returned.
measure_thread_scheduling_join ==
    /\ pc = "thr_join"
    /\ threads[i] # Indeterminate
    /\ worker[threads[i]] = "exited"
    /\ worker' = [worker EXCEPT ![threads[i]] = "joined"]
    /\ AfterJoin
    /\ UNCHANGED <<test, timings, heap, resultVars, thread_counter, thread_mutex,
                   threads, reg, child, address_values, verdict>>

\* pthread_join on a handle that was never assigned (pthread_create failed
\* for the slot), or on one already joined through such a handle: undefined
\* behaviour. The call returns an error at once, or the indeterminate value
\* is the handle of a thread of this trial and that thread is joined, or the
\* process is killed, or the call never returns.
measure_thread_scheduling_join_undefined ==
    /\ pc = "thr_join"
    /\ \/ threads[i] = Indeterminate
       \/ threads[i] # Indeterminate /\ worker[threads[i]] = "joined"
    /\ \/ AfterJoin /\ UNCHANGED worker
       \/ /\ threads[i] = Indeterminate
          /\ \E s \in Slots :
               /\ worker[s] = "exited"
               /\ worker' = [worker EXCEPT ![s] = "joined"]
          /\ AfterJoin
       \/ pc' = "crashed" /\ UNCHANGED <<i, worker>>
       \/ pc' = "hung" /\ UNCHANGED <<i, worker>>
    /\ UNCHANGED <<test, timings, heap, resultVars, thread_counter, thread_mutex,
                   threads, reg, child, address_values, verdict>>

\* long long end = get_time_ns(); timings[test] = (double)(end - start); test++
measure_thread_scheduling_end ==
    /\ pc = "thr_end"
    /\ timings' = [timings EXCEPT ![test + 1] = Stored]
    /\ test' = test + 1
    /\ pc' = IF test + 1 < ThreadTests THEN "thr_reset" ELSE "thr_stats"
    /\ UNCHANGED <<i, heap, resultVars, threadVars, child, address_values, verdict>>

\* The statistics over num_tests samples, the index and free(timings); the
\* locals of the function are gone when it returns.
measure_thread_scheduling_stats ==
    /\ pc = "thr_stats"
    /\ \E values \in Samples(timings, ThreadTests) :
         LET fr == FeatureRecord(values, ThreadTests)
             fields == ProbeFields("scheduling_thread", fr) @@
                       ("physical_machine_index" :>
                          calculate_pmi_safe(fr.kurtosis, fr.skewness, fr.variance))
         IN  /\ measurements' = Assign(measurements, fields)
             /\ writes' = Assigned(writes, DOMAIN fields)
    /\ heap' = heap \ {"timings"}
    /\ timings' = NoBuffer
    /\ threads' = [s \in Slots |-> Indeterminate]
    /\ worker' = [s \in Slots |-> IF worker[s] \in Live THEN worker[s] ELSE "none"]
    /\ test' = 0
    /\ pc' = "mp_alloc"
    /\ UNCHANGED <<i, thread_counter, thread_mutex, reg, child, address_values, verdict>>

\* ------------------------------------------------------- thread_workload

\* pthread_mutex_lock succeeds when nobody owns the mutex.
\* A lock that never excludes anybody.
MutexFreeAlways(owner) == TRUE

MutexFree(owner) == owner = NoOwner

Running == pc \notin {"crashed"}

\* for (int i = 0; i < 5000; i++) result += i * i;
thread_workload_compute(w) ==
    /\ Running
    /\ worker[w] = "started"
    /\ worker' = [worker EXCEPT ![w] = "computed"]
    /\ UNCHANGED <<pc, test, i, timings, heap, resultVars, thread_counter,
                   thread_mutex, threads, reg, child, address_values, verdict>>

\* pthread_mutex_lock(&thread_mutex); and the read of thread_counter++
thread_workload_lock(w) ==
    /\ Running
    /\ worker[w] = "computed"
    /\ MutexFree(thread_mutex)
    /\ thread_mutex' = w
    /\ reg' = [reg EXCEPT ![w] = thread_counter]
    /\ worker' = [worker EXCEPT ![w] = "locked"]
    /\ UNCHANGED <<pc, test, i, timings, heap, resultVars, thread_counter,
                   threads, child, address_values, verdict>>

\* The write of thread_counter++; pthread_mutex_unlock(&thread_mutex);
\* return NULL;
thread_workload_unlock(w) ==
    /\ Running
    /\ worker[w] = "locked"
    /\ thread_counter' = reg[w] + 1
    /\ thread_mutex' = NoOwner
    /\ reg' = [reg EXCEPT ![w] = 0]
    /\ worker' = [worker EXCEPT ![w] = "exited"]
    /\ UNCHANGED <<pc, test, i, timings, heap, resultVars, threads, child,
                   address_values, verdict>>

\* -------------------------------------- measure_multiprocessing_scheduling

\* The states of a forked child: "none" (no process in the slot), "forked"
\* (in the pid == 0 branch, process_workload not yet run), "zombie"
\* (exit(0) done, not reaped), "reaped".
Unreaped == {"forked", "zombie"}

\* double *timings = malloc(num_tests * sizeof(double)); if (!timings) return;
measure_multiprocessing_scheduling_alloc ==
    /\ pc = "mp_alloc"
    /\ \E ok \in BOOLEAN :
         IF ok
         THEN /\ heap' = heap \cup {"timings"}
              /\ timings' = FreshBuffer(ProcTests)
              /\ pc' = "mp_start"
         ELSE /\ pc' = "cons_alloc"
              /\ UNCHANGED <<heap, timings>>
    /\ test' = 0
    /\ UNCHANGED <<i, resultVars, threadVars, child, address_values, verdict>>

\* long long start = get_time_ns(); the children reaped in the trial before
\* are gone.
measure_multiprocessing_scheduling_start ==
    /\ pc = "mp_start"
    /\ child' = [s \in Slots |-> IF child[s] \in Unreaped THEN child[s] ELSE "none"]
    /\ i' = 0
    /\ pc' = "mp_fork"
    /\ UNCHANGED <<test, timings, heap, resultVars, threadVars, address_values, verdict>>

\* One pass of the loop over fork(), which may fail (pid < 0, logged).
measure_multiprocessing_scheduling_fork ==
    /\ pc = "mp_fork"
    /\ \E ok \in BOOLEAN :
         IF ok THEN child' = [child EXCEPT ![i] = "forked"] ELSE UNCHANGED child
    /\ IF i + 1 < THREAD_COUNT
       THEN i' = i + 1 /\ pc' = pc
       ELSE i' = 0 /\ pc' = "mp_wait"
    /\ UNCHANGED <<test, timings, heap, resultVars, threadVars, address_values, verdict>>

\* for (int i = 0; i < THREAD_COUNT; i++) wait(NULL);
\* A wait loop that makes one call fewer.
WaitBoundShort == THREAD_COUNT - 1

WaitBound == THREAD_COUNT

\* One wait(NULL): it reaps a child that has exited, returns -1 at once when
\* the process has no child, and blocks otherwise.
measure_multiprocessing_scheduling_wait ==
    /\ pc = "mp_wait"
    /\ IF \A s \in Slots : child[s] \notin Unreaped
       THEN UNCHANGED child
       ELSE \E s \in Slots :
              /\ child[s] = "zombie"
              /\ child' = [child EXCEPT ![s] = "reaped"]
    /\ IF i + 1 < WaitBound
       THEN i' = i + 1 /\ pc' = pc
       ELSE i' = 0 /\ pc' = "mp_end"
    /\ UNCHANGED <<test, timings, heap, resultVars, threadVars, address_values, verdict>>

\* long long end = get_time_ns(); timings[test] = (double)(end - start); test++
measure_multiprocessing_scheduling_end ==
    /\ pc = "mp_end"
    /\ timings' = [timings EXCEPT ![test + 1] = Stored]
    /\ test' = test + 1
    /\ pc' = IF test + 1 < ProcTests THEN "mp_start" ELSE "mp_stats"
    /\ UNCHANGED <<i, heap, resultVars, threadVars, child, address_values, verdict>>

\* A multiprocess probe that would also store the index of the thread
\* probe, from its own statistics.
measure_multiprocessing_scheduling_stats_pmi ==
    /\ pc = "mp_stats"
    /\ \E values \in Samples(timings, ProcTests) :
         LET fr == FeatureRecord(values, ProcTests)
             fields == ProbeFields("scheduling_multiproc", fr) @@
                       ("physical_machine_index" :>
                          calculate_pmi_safe(fr.kurtosis, fr.skewness, fr.variance))
         IN  /\ measurements' = Assign(measurements, fields)
             /\ writes' = Assigned(writes, DOMAIN fields)
    /\ heap' = heap \ {"timings"}
    /\ timings' = NoBuffer
    /\ child' = [s \in Slots |-> IF child[s] \in Unreaped THEN child[s] ELSE "none"]
    /\ test' = 0
    /\ pc' = "cons_alloc"
    /\ UNCHANGED <<i, threadVars, address_values, verdict>>

\* The statistics over num_tests samples and free(timings).
measure_multiprocessing_scheduling_stats ==
    /\ pc = "mp_stats"
    /\ \E values \in Samples(timings, ProcTests) :
         LET fields == ProbeFields("scheduling_multiproc", FeatureRecord(values, ProcTests))
         IN  /\ measurements' = Assign(measurements, fields)
             /\ writes' = Assigned(writes, DOMAIN fields)
    /\ heap' = heap \ {"timings"}
    /\ timings' = NoBuffer
    /\ child' = [s \in Slots |-> IF child[s] \in Unreaped THEN child[s] ELSE "none"]
    /\ test' = 0
    /\ pc' = "cons_alloc"
    /\ UNCHANGED <<i, threadVars, address_values, verdict>>

\* A child without the exit(0): it would leave the branch, go on in the
\* trial loop of its copy of main and store a sample.
process_workload_returning(c) ==
    /\ child[c] = "forked"
    /\ child' = [child EXCEPT ![c] = "zombie"]
    /\ timings' = [timings EXCEPT ![test + 1] = Stored]
    /\ UNCHANGED <<pc, test, i, heap, resultVars, threadVars, address_values, verdict>>

\* The child's branch of fork(): process_workload(); exit(0);
process_workload(c) ==
    /\ child[c] = "forked"
    /\ child' = [child EXCEPT ![c] = "zombie"]
    /\ UNCHANGED <<pc, test, i, timings, heap, resultVars, threadVars,
                   address_values, verdict>>

\* ---------------------------------------------- measure_consecutive_timing

\* double *timings = malloc(num_tests * sizeof(double)); if (!timings) return;
measure_consecutive_timing_alloc ==
    /\ pc = "cons_alloc"
    /\ \E ok \in BOOLEAN :
         IF ok
         THEN /\ heap' = heap \cup {"timings"}
              /\ timings' = FreshBuffer(ConsecTests)
              /\ pc' = "cons_run"
         ELSE /\ pc' = "cache_alloc_data"
              /\ UNCHANGED <<heap, timings>>
    /\ UNCHANGED <<test, i, resultVars, threadVars, child, address_values, verdict>>

\* What one trial stores: the mean of the times of its back-to-back
\* operations.
TrialMeans ==
    {calculate_mean([k \in 1..ConsecOps |-> times[k] * SCALE], ConsecOps) :
        times \in [1..ConsecOps -> Durations]}

\* The loop over the trials, the statistics and free(timings).
measure_consecutive_timing_run ==
    /\ pc = "cons_run"
    /\ \E values \in [1..ConsecTests -> TrialMeans] :
         LET fields == ProbeFields("timing_consecutive", FeatureRecord(values, ConsecTests))
         IN  /\ measurements' = Assign(measurements, fields)
             /\ writes' = Assigned(writes, DOMAIN fields)
    /\ heap' = heap \ {"timings"}
    /\ timings' = NoBuffer
    /\ pc' = "cache_alloc_data"
    /\ UNCHANGED <<test, i, threadVars, child, address_values, verdict>>

\* -------------------------------------------------- measure_cache_behavior

\* double *data = malloc(...); on failure the neutral ratios are stored.
measure_cache_behavior_alloc_data ==
    /\ pc = "cache_alloc_data"
    /\ \E ok \in BOOLEAN :
         IF ok
         THEN /\ heap' = heap \cup {"data"}
              /\ pc' = "cache_alloc_indices"
              /\ UNCHANGED resultVars
         ELSE LET fields == ("cache_access_ratio" :> 1 * SCALE) @@ ("cache_miss_ratio" :> 0)
              IN  /\ measurements' = Assign(measurements, fields)
                  /\ writes' = Assigned(writes, DOMAIN fields)
                  /\ pc' = "mem_alloc"
                  /\ UNCHANGED heap
    /\ UNCHANGED <<test, i, timings, threadVars, child, address_values, verdict>>

\* The cache-friendly scans, then int *indices = malloc(...);
\* if (!indices) { free(data); return; }
measure_cache_behavior_alloc_indices ==
    /\ pc = "cache_alloc_indices"
    /\ \E ok \in BOOLEAN :
         IF ok
         THEN heap' = heap \cup {"indices"} /\ pc' = "cache_ratio"
         ELSE heap' = heap \ {"data"} /\ pc' = "mem_alloc"
    /\ UNCHANGED <<test, i, timings, resultVars, threadVars, child, address_values,
                   verdict>>

\* A ratio step whose fallback would store 0.0 for both ratios.
measure_cache_behavior_ratio_zero ==
    /\ pc = "cache_ratio"
    /\ \E friendly \in FriendlyMeans, unfriendly \in UnfriendlyMeans :
         LET cache_friendly_mean == friendly * SCALE
             cache_unfriendly_mean == unfriendly * SCALE
             fields ==
                 IF cache_friendly_mean > 0
                 THEN ("cache_access_ratio" :>
                         Quot(cache_unfriendly_mean * SCALE, cache_friendly_mean)) @@
                      ("cache_miss_ratio" :>
                         Quot((cache_unfriendly_mean - cache_friendly_mean) * SCALE,
                              cache_friendly_mean))
                 ELSE ("cache_access_ratio" :> 0) @@ ("cache_miss_ratio" :> 0)
         IN  /\ measurements' = Assign(measurements, fields)
             /\ writes' = Assigned(writes, DOMAIN fields)
    /\ heap' = heap \ {"data", "indices"}
    /\ pc' = "mem_alloc"
    /\ UNCHANGED <<test, i, timings, threadVars, child, address_values, verdict>>

\* The ratios from the means of the two arrays of scan times (the arrays
\* are locals read only here), free(data), free(indices).
measure_cache_behavior_ratio ==
    /\ pc = "cache_ratio"
    /\ \E friendly \in FriendlyMeans, unfriendly \in UnfriendlyMeans :
         LET cache_friendly_mean == friendly * SCALE
             cache_unfriendly_mean == unfriendly * SCALE
             fields ==
                 IF cache_friendly_mean > 0
                 THEN ("cache_access_ratio" :>
                         Quot(cache_unfriendly_mean * SCALE, cache_friendly_mean)) @@
                      ("cache_miss_ratio" :>
                         Quot((cache_unfriendly_mean - cache_friendly_mean) * SCALE,
                              cache_friendly_mean))
                 ELSE ("cache_access_ratio" :> 1 * SCALE) @@ ("cache_miss_ratio" :> 0)
         IN  /\ measurements' = Assign(measurements, fields)
             /\ writes' = Assigned(writes, DOMAIN fields)
    /\ heap' = heap \ {"data", "indices"}
    /\ pc' = "mem_alloc"
    /\ UNCHANGED <<test, i, timings, threadVars, child, address_values, verdict>>

\* -------------------------------------------------- measure_memory_entropy

\* What the loop over malloc(1024 + i * 16) can record: the blocks are all
\* held until the clean-up, so the addresses that are not NULL differ.
AddressSequences ==
    {av \in [1..NumAddresses -> AddressPool] :
        \A a, b \in 1..NumAddresses : a # b /\ av[a] # 0 => av[a] # av[b]}

\* diffs[i] = address_values[i+1] - address_values[i];
Differences(av) == [k \in 1..(NumAddresses - 1) |-> av[k + 1] - av[k]]

\* The two mallocs of addresses and address_values; when either fails the
\* entropy is set to 0.0, the other buffer is freed and the probe returns.
measure_memory_entropy_alloc ==
    /\ pc = "mem_alloc"
    /\ \E addresses_ok \in BOOLEAN, values_ok \in BOOLEAN :
         IF addresses_ok /\ values_ok
         THEN /\ heap' = heap \cup {"addresses", "address_values"}
              /\ pc' = "mem_collect"
              /\ UNCHANGED resultVars
         ELSE LET fields == ("memory_address_entropy" :> 0)
              IN  /\ measurements' = Assign(measurements, fields)
                  /\ writes' = Assigned(writes, DOMAIN fields)
                  /\ pc' = "overall"
                  /\ UNCHANGED heap
    /\ UNCHANGED <<test, i, timings, threadVars, child, address_values, verdict>>

\* The allocation loop and
\* measurements.memory_address_entropy = calculate_entropy(address_values, 1000);
\* calculate_entropy returns 0.0 when calloc gives it no histogram.
measure_memory_entropy_collect ==
    /\ pc = "mem_collect"
    /\ \E av \in AddressSequences, hist_ok \in BOOLEAN :
         LET fields == ("memory_address_entropy" :>
                          calculate_entropy(av, NumAddresses, hist_ok))
         IN  /\ address_values' = av
             /\ heap' = heap \cup (IF \E k \in 1..NumAddresses : av[k] # 0
                                    THEN {"blocks"} ELSE {})
             /\ measurements' = Assign(measurements, fields)
             /\ writes' = Assigned(writes, DOMAIN fields)
    /\ pc' = "mem_fallback"
    /\ UNCHANGED <<test, i, timings, threadVars, child, verdict>>

\* A fallback that would replace every first estimate below 2.0.
measure_memory_entropy_fallback_eager ==
    /\ pc = "mem_fallback"
    /\ IF measurements.memory_address_entropy < 2 * SCALE
       THEN \E diffs_ok \in BOOLEAN, hist_ok \in BOOLEAN :
              IF diffs_ok
              THEN LET fields == ("memory_address_entropy" :>
                                    calculate_entropy(Differences(address_values),
                                                      NumAddresses - 1, hist_ok))
                   IN  /\ measurements' = Assign(measurements, fields)
                       /\ writes' = Assigned(writes, DOMAIN fields)
              ELSE UNCHANGED resultVars
       ELSE UNCHANGED resultVars
    /\ heap' = heap \ {"blocks", "addresses", "address_values"}
    /\ address_values' = << >>
    /\ pc' = "overall"
    /\ UNCHANGED <<test, i, timings, threadVars, child, verdict>>

\* if (measurements.memory_address_entropy < 1.0) the entropy of the
\* differences replaces it when malloc returns diffs; then the clean-up.
measure_memory_entropy_fallback ==
    /\ pc = "mem_fallback"
    /\ IF measurements.memory_address_entropy < 1 * SCALE
       THEN \E diffs_ok \in BOOLEAN, hist_ok \in BOOLEAN :
              IF diffs_ok
              THEN LET fields == ("memory_address_entropy" :>
                                    calculate_entropy(Differences(address_values),
                                                      NumAddresses - 1, hist_ok))
                   IN  /\ measurements' = Assign(measurements, fields)
                       /\ writes' = Assigned(writes, DOMAIN fields)
              ELSE UNCHANGED resultVars
       ELSE UNCHANGED resultVars
    /\ heap' = heap \ {"blocks", "addresses", "address_values"}
    /\ address_values' = << >>
    /\ pc' = "overall"
    /\ UNCHANGED <<test, i, timings, threadVars, child, verdict>>

\* ----------------------------------------------- calculate_overall_metrics

\* The mean of the strictly positive ones of two coefficients of variation.
OverallCv(cv1, cv2) ==
    LET cv_sum == (IF cv1 > 0 THEN cv1 ELSE 0) + (IF cv2 > 0 THEN cv2 ELSE 0)
        cv_count == (IF cv1 > 0 THEN 1 ELSE 0) + (IF cv2 > 0 THEN 1 ELSE 0)
    IN  IF cv_count > 0 THEN Quot(cv_sum, cv_count) ELSE 0

\* An overall step that would also store the overall timing CV over
\* timing_basic_cv.
calculate_overall_metrics_rewriting ==
    /\ pc = "overall"
    /\ LET timing_cv == OverallCv(measurements.timing_basic_cv,
                                 measurements.timing_consecutive_cv)
           fields ==
               ("overall_timing_cv" :> timing_cv) @@ ("timing_basic_cv" :> timing_cv) @@
               ("overall_scheduling_cv" :>
                  OverallCv(measurements.scheduling_thread_cv,
                            measurements.scheduling_multiproc_cv))
       IN  /\ measurements' = Assign(measurements, fields)
           /\ writes' = Assigned(writes, DOMAIN fields)
    /\ pc' = "analyze"
    /\ UNCHANGED <<test, i, timings, heap, threadVars, child, address_values, verdict>>

calculate_overall_metrics ==
    /\ pc = "overall"
    /\ LET fields ==
               ("overall_timing_cv" :>
                  OverallCv(measurements.timing_basic_cv,
                            measurements.timing_consecutive_cv)) @@
               ("overall_scheduling_cv" :>
                  OverallCv(measurements.scheduling_thread_cv,
                            measurements.scheduling_multiproc_cv))
       IN  /\ measurements' = Assign(measurements, fields)
           /\ writes' = Assigned(writes, DOMAIN fields)
    /\ pc' = "analyze"
    /\ UNCHANGED <<test, i, timings, heap, threadVars, child, address_values, verdict>>

\* --------------------------------------------------- analyze_vm_indicators

\* A scheduling rule that would trigger on a low CV.
SchedulingWeightInverted(m) == IF m.scheduling_thread_cv > 250 THEN 0 ELSE 300

\* The weight each rule adds to confidence_score, in thousandths.
SchedulingWeight(m) == IF m.scheduling_thread_cv > 250 THEN 300 ELSE 0

\* A PMI rule whose intermediate band would end at 0.0.
PmiWeightBelowZero(m) ==
    IF m.physical_machine_index < -5 * SCALE THEN 400
    ELSE IF m.physical_machine_index < 0 THEN 100
    ELSE 0

PmiWeight(m) ==
    IF m.physical_machine_index < -5 * SCALE THEN 400
    ELSE IF m.physical_machine_index < 1 * SCALE THEN 100
    ELSE 0

CacheWeight(m) == IF m.cache_miss_ratio > 500 THEN 150 ELSE 0

\* A memory-entropy rule without the floor.
EntropyWeightWithoutFloor(m) == IF m.memory_address_entropy < 2 * SCALE THEN 150 ELSE 0

EntropyWeight(m) ==
    IF m.memory_address_entropy < 500 THEN 0
    ELSE IF m.memory_address_entropy < 2 * SCALE THEN 150
    ELSE 0

\* A score that leaves the memory-entropy rule out.
ConfidenceScoreWithoutEntropy(m) == SchedulingWeight(m) + PmiWeight(m) + CacheWeight(m)

ConfidenceScore(m) == SchedulingWeight(m) + PmiWeight(m) + CacheWeight(m) + EntropyWeight(m)

\* vm_indicators: the rules that printed [VM].
VmIndicators(m) ==
    (IF m.scheduling_thread_cv > 250 THEN 1 ELSE 0) +
    (IF m.physical_machine_index < -5 * SCALE THEN 1 ELSE 0) +
    (IF m.cache_miss_ratio > 500 THEN 1 ELSE 0) +
    (IF m.memory_address_entropy >= 500 /\ m.memory_address_entropy < 2 * SCALE
     THEN 1 ELSE 0)

\* Cut-points that would put a score on a cut-point in the upper category.
ResultInclusive(vm_likelihood) ==
    IF vm_likelihood >= 600 THEN "virtual"
    ELSE IF vm_likelihood >= 300 THEN "ambiguous"
    ELSE "physical"

\* The line printed after "Result: ".
Result(vm_likelihood) ==
    IF vm_likelihood > 600 THEN "virtual"
    ELSE IF vm_likelihood > 300 THEN "ambiguous"
    ELSE "physical"

analyze_vm_indicators ==
    /\ pc = "analyze"
    /\ verdict' = [confidence_score |-> ConfidenceScore(measurements),
                   vm_indicators |-> VmIndicators(measurements),
                   result |-> Result(ConfidenceScore(measurements))]
    /\ pc' = "done"
    /\ UNCHANGED <<test, i, timings, heap, resultVars, threadVars, child, address_values>>

\* ------------------------------------------------------------------- main

Next ==
    \/ measure_timing_basic_alloc
    \/ measure_timing_basic_run
    \/ measure_thread_scheduling_alloc
    \/ measure_thread_scheduling_reset
    \/ measure_thread_scheduling_start
    \/ measure_thread_scheduling_create
    \/ measure_thread_scheduling_join
    \/ measure_thread_scheduling_join_undefined
    \/ measure_thread_scheduling_end
    \/ measure_thread_scheduling_stats
    \/ \E w \in Slots : thread_workload_compute(w)
    \/ \E w \in Slots : thread_workload_lock(w)
    \/ \E w \in Slots : thread_workload_unlock(w)
    \/ measure_multiprocessing_scheduling_alloc
    \/ measure_multiprocessing_scheduling_start
    \/ measure_multiprocessing_scheduling_fork
    \/ measure_multiprocessing_scheduling_wait
    \/ measure_multiprocessing_scheduling_end
    \/ measure_multiprocessing_scheduling_stats
    \/ \E c \in Slots : process_workload(c)
    \/ measure_consecutive_timing_alloc
    \/ measure_consecutive_timing_run
    \/ measure_cache_behavior_alloc_data
    \/ measure_cache_behavior_alloc_indices
    \/ measure_cache_behavior_ratio
    \/ measure_memory_entropy_alloc
    \/ measure_memory_entropy_collect
    \/ measure_memory_entropy_fallback
    \/ calculate_overall_metrics
    \/ analyze_vm_indicators

Spec == Init /\ [][Next]_vars

\* ------------------------------------------------------------ the probes

\* main calls the probes in this order, then calculate_overall_metrics and
\* analyze_vm_indicators. A run that was killed or that hangs in
\* pthread_join is inside the thread-scheduling probe.
Probes ==
    << {"basic_alloc", "basic_run"},
       {"thr_alloc", "thr_reset", "thr_start", "thr_create", "thr_join", "thr_end",
        "thr_stats", "crashed", "hung"},
       {"mp_alloc", "mp_start", "mp_fork", "mp_wait", "mp_end", "mp_stats"},
       {"cons_alloc", "cons_run"},
       {"cache_alloc_data", "cache_alloc_indices", "cache_ratio"},
       {"mem_alloc", "mem_collect", "mem_fallback"},
       {"overall"},
       {"analyze"},
       {"done"} >>

ProbeOf(p) == CHOOSE k \in 1..Len(Probes) : p \in Probes[k]

\* The five fields of the feature record of a timing probe.
FieldsOf(prefix) ==
    {prefix \o suffix : suffix \in {"_mean", "_variance", "_cv", "_skewness", "_kurtosis"}}

NoLiveWorker == \A s \in Slots : worker[s] \notin Live
NoUnreapedChild == \A s \in Slots : child[s] \notin Unreaped

\* ------------------------------------------------------------- properties

\* C1: a thread-scheduling trial is atomic; a trial in which a
\* pthread_create failed (its slot of threads[] was never assigned) stores
\* no duration in timings. Checked where the trial has just ended: the
\* sample of trial number `test` is timings[test].
C1_TrialAtomic ==
    (/\ pc \in {"thr_reset", "thr_stats"}
     /\ test >= 1
     /\ \E s \in Slots : threads[s] = Indeterminate)
    => timings[test] = Unset

\* C2: a multiprocess trial in which a fork() failed (no child in its slot)
\* stores no duration in timings.
C2_FailedForkStoresNothing ==
    (/\ pc \in {"mp_start", "mp_stats"}
     /\ test >= 1
     /\ \E s \in Slots : child[s] = "none")
    => timings[test] = Unset

\* C3: whatever subset of the forks failed, the parent goes on, and when it
\* takes the end timestamp of a multiprocess trial every child it created
\* has exited and is reaped; every trial starts with no live child. While
\* the parent waits, either wait() can return or a child is still to exit.
C3_ChildrenReapedBeforeEnd ==
    /\ pc \in {"mp_start", "mp_end", "mp_stats"} => NoUnreapedChild
    /\ pc = "mp_end" => \A s \in Slots : child[s] \in {"none", "reaped"}
    /\ pc = "mp_wait" =>
         \/ ENABLED measure_multiprocessing_scheduling_wait
         \/ \E s \in Slots : child[s] = "forked"

\* A trial in which one fork failed and the other children are reaped.
C3_Witness ==
    /\ pc = "mp_end"
    /\ \E s \in Slots : child[s] = "none"
    /\ \E s \in Slots : child[s] = "reaped"

\* C4: the start timestamp of a thread trial is taken when no worker
\* exists, and the end timestamp, the store of the duration and the reset
\* of the counter for the next trial happen only when every worker created
\* in the trial has returned and is joined.
C4_IntervalCoversFanOutFanIn ==
    /\ pc \in {"thr_reset", "thr_start", "thr_end", "thr_stats"} => NoLiveWorker
    /\ pc = "thr_start" => \A s \in Slots : worker[s] = "none"
    /\ pc = "thr_end" =>
         \A s \in Slots : threads[s] # Indeterminate => worker[threads[s]] = "joined"

\* The last trial, its four workers created and all joined.
C4_Witness ==
    /\ pc = "thr_end"
    /\ test = ThreadTests - 1
    /\ \A s \in Slots : threads[s] = s /\ worker[s] = "joined"

\* C5: no worker runs the loop of thread_workload before all THREAD_COUNT
\* workers of the trial are created, that is, while main is still in the
\* loop over pthread_create.
C5_BarrierRendezvous ==
    pc = "thr_create" => \A s \in Slots : worker[s] \in {"none", "started"}

\* C6: thread_counter changes only under thread_mutex (or by the reset of
\* main), at most one worker is inside the increment, and no increment is
\* lost: during a trial the counter is the number of workers that have
\* returned, so it is the number of workers that ran once they are joined;
\* it is 0 when the trial starts, before any worker exists.
C6_CounterUnderMutex ==
    /\ [](Cardinality({s \in Slots : worker[s] = "locked"}) <= 1)
    /\ [](\A s \in Slots : worker[s] = "locked" => thread_mutex = s)
    /\ [](pc \in {"thr_reset", "thr_start", "thr_create", "thr_join", "thr_end",
                  "thr_stats", "crashed", "hung"}
          => thread_counter =
                 Cardinality({s \in Slots : worker[s] \in {"exited", "joined"}}))
    /\ [](pc = "thr_start" => thread_counter = 0 /\ \A s \in Slots : worker[s] = "none")
    /\ [][thread_counter' # thread_counter =>
            \/ pc = "thr_reset"
            \/ /\ thread_mutex # NoOwner
               /\ worker[thread_mutex] = "locked"
               /\ thread_counter' = thread_counter + 1]_vars

\* A trial in which all four workers ran, interleaved, and are joined.
C6_Witness ==
    /\ pc = "thr_end"
    /\ thread_counter = THREAD_COUNT
    /\ \A s \in Slots : worker[s] = "joined"

\* C7: the probes run one after the other in the order of main, none is
\* skipped or entered twice, and a worker thread or a child process is
\* alive only inside the trial of the probe that created it, so none is
\* alive when a probe starts.
C7_ProbesSequential ==
    /\ [][ProbeOf(pc') \in {ProbeOf(pc), ProbeOf(pc) + 1}]_vars
    /\ [](pc \notin {"thr_create", "thr_join", "crashed", "hung"} => NoLiveWorker)
    /\ [](pc \notin {"mp_fork", "mp_wait"} => NoUnreapedChild)

\* The multiprocess probe starts after a thread probe whose workers all ran.
C7_Witness ==
    /\ pc = "mp_alloc"
    /\ thread_counter = THREAD_COUNT
    /\ writes["scheduling_thread_mean"] = 1

\* C8: the engine always completes: the run does not stop before
\* analyze_vm_indicators has given its verdict, whatever allocations,
\* pthread_create calls and forks fail.
C8_EngineCompletes == (ENABLED Next) \/ pc = "done"

\* C9: a probe whose scratch allocation fails returns with every scratch
\* buffer freed and its fields at the defaults: zero, and for the cache
\* probe the pair 1.0 / 0.0, whichever of its allocations failed.
C9_AllocationFailureDefaults ==
    [][/\ (pc = "basic_alloc" /\ pc' = "thr_alloc") =>
             heap' = {} /\ \A f \in FieldsOf("timing_basic") : measurements'[f] = 0
       /\ (pc = "thr_alloc" /\ pc' = "mp_alloc") =>
             /\ heap' = {}
             /\ \A f \in FieldsOf("scheduling_thread") \cup {"physical_machine_index"} :
                  measurements'[f] = 0
       /\ (pc = "mp_alloc" /\ pc' = "cons_alloc") =>
             heap' = {} /\ \A f \in FieldsOf("scheduling_multiproc") : measurements'[f] = 0
       /\ (pc = "cons_alloc" /\ pc' = "cache_alloc_data") =>
             heap' = {} /\ \A f \in FieldsOf("timing_consecutive") : measurements'[f] = 0
       /\ (pc \in {"cache_alloc_data", "cache_alloc_indices"} /\ pc' = "mem_alloc") =>
             /\ heap' = {}
             /\ measurements'.cache_access_ratio = 1 * SCALE
             /\ measurements'.cache_miss_ratio = 0
       /\ (pc = "mem_alloc" /\ pc' = "overall") =>
             heap' = {} /\ measurements'.memory_address_entropy = 0]_vars

\* C10 as stated: every field of measurements is assigned at most once in
\* a run.
C10_WriteOnce == \A f \in Fields : writes[f] <= 1

\* C10, amended: every field of measurements other than
\* memory_address_entropy is assigned at most once in a run;
\* memory_address_entropy is assigned at most twice, the second time only
\* inside measure_memory_entropy, before the probe returns.
C10_WriteOnceButEntropy ==
    /\ [](\A f \in Fields \ {"memory_address_entropy"} : writes[f] <= 1)
    /\ [](writes["memory_address_entropy"] <= 2)
    /\ [][writes'["memory_address_entropy"] # writes["memory_address_entropy"] =>
            /\ pc \in {"mem_alloc", "mem_collect", "mem_fallback"}
            /\ writes["memory_address_entropy"] = 1 => pc = "mem_fallback"]_vars

\* A run in which the entropy of the differences replaced the first one.
C10_Witness ==
    /\ pc = "done"
    /\ writes["memory_address_entropy"] = 2
    /\ \A f \in Fields \ {"memory_address_entropy"} : writes[f] = 1

\* ------------------------------------------- the classifier on its inputs

\* Values of the four fields analyze_vm_indicators reads, on both sides of
\* and on every threshold it compares them with (thousandths).
CvInputs == {0, 250, 251, 900}
PmiInputs == {-20000, -10000, -5001, -5000, 0, 999, 1000, 10000}
MissInputs == {-500, 0, 500, 501, 3000}
EntropyInputs == {0, 499, 500, 1999, 2000, 4322}

\* main at the call of analyze_vm_indicators, the four fields holding any
\* of these values.
ClassifierInit ==
    /\ pc = "analyze"
    /\ test = 0
    /\ i = 0
    /\ timings = NoBuffer
    /\ heap = {}
    /\ measurements \in
         {Assign(ZeroMeasurements,
                 ("scheduling_thread_cv" :> cv) @@ ("physical_machine_index" :> pmi) @@
                 ("cache_miss_ratio" :> miss) @@ ("memory_address_entropy" :> entropy)) :
            cv \in CvInputs, pmi \in PmiInputs, miss \in MissInputs,
            entropy \in EntropyInputs}
    /\ writes = [f \in Fields |-> 0]
    /\ thread_counter = 0
    /\ thread_mutex = NoOwner
    /\ threads = [s \in Slots |-> Indeterminate]
    /\ worker = [s \in Slots |-> "none"]
    /\ reg = [s \in Slots |-> 0]
    /\ child = [s \in Slots |-> "none"]
    /\ address_values = << >>
    /\ verdict = [confidence_score |-> 0, vm_indicators |-> 0, result |-> "none"]

ClassifierNext == analyze_vm_indicators

ClassifierSpec == ClassifierInit /\ [][ClassifierNext]_vars

\* C11: for every combination of the four fields the confidence score is
\* the sum of the weights of the rules that trigger (0.3 scheduling CV, 0.4
\* or 0.1 PMI, 0.15 cache miss ratio, 0.15 memory entropy) and lies in
\* [0, 1].
C11_ScoreIsSumOfWeights ==
    pc = "done" =>
      /\ verdict.confidence_score =
           (IF measurements.scheduling_thread_cv > 250 THEN 300 ELSE 0) +
           (IF measurements.physical_machine_index < -5000 THEN 400
            ELSE IF measurements.physical_machine_index < 1000 THEN 100 ELSE 0) +
           (IF measurements.cache_miss_ratio > 500 THEN 150 ELSE 0) +
           (IF /\ measurements.memory_address_entropy >= 500
               /\ measurements.memory_address_entropy < 2000 THEN 150 ELSE 0)
      /\ verdict.confidence_score >= 0
      /\ verdict.confidence_score <= 1 * SCALE

\* All four rules triggered, the PMI rule with its strong weight: score 1.0.
C11_Witness ==
    /\ pc = "done"
    /\ verdict.confidence_score = 1 * SCALE
    /\ verdict.vm_indicators = 4

\* C12: one category per run, by two cut-points on the confidence score:
\* virtual iff score > 0.6, ambiguous iff 0.3 < score <= 0.6, physical iff
\* score <= 0.3; a score equal to a cut-point falls in the lower category.
\* Nothing is emitted before the classifier has run.
C12_CategoryByCutPoints ==
    /\ pc # "done" => verdict.result = "none"
    /\ pc = "done" =>
         /\ verdict.result \in {"virtual", "ambiguous", "physical"}
         /\ verdict.result = "virtual" <=> verdict.confidence_score > 600
         /\ verdict.result = "ambiguous" <=>
              (verdict.confidence_score > 300 /\ verdict.confidence_score <= 600)
         /\ verdict.result = "physical" <=> verdict.confidence_score <= 300

\* Only the scheduling-CV rule triggered: score 0.3, on the lower cut-point.
C12_Witness ==
    /\ pc = "done"
    /\ measurements.scheduling_thread_cv > 250
    /\ verdict.vm_indicators = 1
    /\ verdict.confidence_score = 300
    /\ verdict.result = "physical"

\* How VM-like a category is.
VmLikeness(result) ==
    IF result = "virtual" THEN 2 ELSE IF result = "ambiguous" THEN 1 ELSE 0

\* C13: the classifier is monotone in scheduling_thread_cv: for the input
\* just classified and any input that differs from it only by a
\* scheduling_thread_cv that is not lower, the score of the second is not
\* lower and its category is not less VM-like.
C13_MonotoneInSchedulingCv ==
    pc = "done" =>
      \A cv2 \in CvInputs :
        cv2 >= measurements.scheduling_thread_cv =>
          LET m2 == [measurements EXCEPT !["scheduling_thread_cv"] = cv2]
          IN  /\ ConfidenceScore(m2) >= verdict.confidence_score
              /\ VmLikeness(Result(ConfidenceScore(m2))) >= VmLikeness(verdict.result)

\* An input on the threshold classified physical, which a scheduling CV
\* just above the threshold moves to ambiguous.
C13_Witness ==
    /\ pc = "done"
    /\ measurements.scheduling_thread_cv = 250
    /\ verdict.result = "physical"
    /\ Result(ConfidenceScore([measurements EXCEPT !["scheduling_thread_cv"] = 251]))
         = "ambiguous"

\* ------------------------------------- calculate_pmi_safe on its inputs

\* Kurtosis, skewness and variance of the thread-scheduling record, inside
\* and outside the ranges the statistics produce: negative, zero, the
\* smallest positive value, and large (thousandths).
KurtosisInputs == {-1000, 0, 1, 5000, 20000}
SkewnessInputs == {-2000, 0, 1, 2000, 100000}
VarianceInputs == {-1000, 0, 1, 10000, 2000000}

\* measure_thread_scheduling after it has stored its five statistics, the
\* three that calculate_pmi_safe reads holding any of these values.
PmiInit ==
    /\ pc = "thr_pmi"
    /\ test = ThreadTests
    /\ i = 0
    /\ timings = [k \in 1..ThreadTests |-> Stored]
    /\ heap = {"timings"}
    /\ measurements \in
         {Assign(ZeroMeasurements,
                 ("scheduling_thread_kurtosis" :> kurtosis) @@
                 ("scheduling_thread_skewness" :> skewness) @@
                 ("scheduling_thread_variance" :> variance)) :
            kurtosis \in KurtosisInputs, skewness \in SkewnessInputs,
            variance \in VarianceInputs}
    /\ writes = [f \in Fields |-> IF f \in FieldsOf("scheduling_thread") THEN 1 ELSE 0]
    /\ thread_counter = 0
    /\ thread_mutex = NoOwner
    /\ threads = [s \in Slots |-> Indeterminate]
    /\ worker = [s \in Slots |-> "none"]
    /\ reg = [s \in Slots |-> 0]
    /\ child = [s \in Slots |-> "none"]
    /\ address_values = << >>
    /\ verdict = [confidence_score |-> 0, vm_indicators |-> 0, result |-> "none"]

\* measurements.physical_machine_index = calculate_pmi_safe(
\*     measurements.scheduling_thread_kurtosis,
\*     measurements.scheduling_thread_skewness,
\*     measurements.scheduling_thread_variance); free(timings);
measure_thread_scheduling_pmi ==
    /\ pc = "thr_pmi"
    /\ LET fields == ("physical_machine_index" :>
                        calculate_pmi_safe(measurements.scheduling_thread_kurtosis,
                                           measurements.scheduling_thread_skewness,
                                           measurements.scheduling_thread_variance))
       IN  /\ measurements' = Assign(measurements, fields)
           /\ writes' = Assigned(writes, DOMAIN fields)
    /\ heap' = heap \ {"timings"}
    /\ timings' = NoBuffer
    /\ test' = 0
    /\ pc' = "mp_alloc"
    /\ UNCHANGED <<i, threadVars, child, address_values, verdict>>

PmiNext == measure_thread_scheduling_pmi

PmiSpec == PmiInit /\ [][PmiNext]_vars

\* C14: calculate_pmi_safe returns exactly the sentinel -10.0 when the
\* variance, the kurtosis or the skewness is <= 0, its result is in
\* [-20, 10] for every input, and physical_machine_index is in [-20, 10]
\* in every state.
C14_PmiSentinelAndRange ==
    /\ measurements.physical_machine_index >= -20 * SCALE
    /\ measurements.physical_machine_index <= 10 * SCALE
    /\ (pc = "mp_alloc" /\ writes["physical_machine_index"] = 1) =>
         ((\/ measurements.scheduling_thread_variance <= 0
           \/ measurements.scheduling_thread_kurtosis <= 0
           \/ measurements.scheduling_thread_skewness <= 0)
          => measurements.physical_machine_index = -10 * SCALE)

\* The index of a record whose variance is 0, its kurtosis and skewness
\* positive.
C14_Witness ==
    /\ pc = "mp_alloc"
    /\ measurements.scheduling_thread_variance = 0
    /\ measurements.scheduling_thread_kurtosis > 0
    /\ measurements.scheduling_thread_skewness > 0
    /\ measurements.physical_machine_index = -10 * SCALE

\* The scheduling, cache and memory-entropy rules do not trigger.
OnlyPmiRule ==
    /\ measurements.scheduling_thread_cv <= 250
    /\ measurements.cache_miss_ratio <= 500
    /\ measurements.memory_address_entropy < 500 \/ measurements.memory_address_entropy >= 2000

\* C15: the bands of the PMI rule: below -5.0 the strong weight 0.4 and one
\* VM indicator; from -5.0 up to but not 1.0 the low weight 0.1 and no
\* indicator; from 1.0 nothing. The index of a record with kurtosis 5,
\* skewness 2, variance 10 is 0.0 and falls in the intermediate band; the
\* sentinel -10.0 falls in the strong band.
C15_PmiBands ==
    (pc = "done" /\ OnlyPmiRule) =>
      LET pmi == measurements.physical_machine_index
      IN  /\ pmi < -5 * SCALE =>
                verdict.confidence_score = 400 /\ verdict.vm_indicators = 1
          /\ (pmi >= -5 * SCALE /\ pmi < 1 * SCALE) =>
                verdict.confidence_score = 100 /\ verdict.vm_indicators = 0
          /\ pmi >= 1 * SCALE =>
                verdict.confidence_score = 0 /\ verdict.vm_indicators = 0
          /\ pmi = calculate_pmi_safe(5 * SCALE, 2 * SCALE, 10 * SCALE) =>
                pmi = 0 /\ verdict.confidence_score = 100
          /\ pmi = calculate_pmi_safe(5 * SCALE, 2 * SCALE, 0) =>
                pmi = -10 * SCALE /\ verdict.confidence_score = 400

\* The record with kurtosis 5, skewness 2, variance 10, classified.
C15_Witness ==
    /\ pc = "done"
    /\ OnlyPmiRule
    /\ measurements.physical_machine_index =
         calculate_pmi_safe(5 * SCALE, 2 * SCALE, 10 * SCALE)
    /\ verdict.confidence_score = 100
    /\ verdict.vm_indicators = 0

\* The scheduling, PMI and cache rules do not trigger.
OnlyEntropyRule ==
    /\ measurements.scheduling_thread_cv <= 250
    /\ measurements.physical_machine_index >= 1 * SCALE
    /\ measurements.cache_miss_ratio <= 500

\* C16: the memory-entropy rule: an entropy below the floor 0.5 adds no
\* weight and no VM indicator; from 0.5 up to but not 2.0 it adds 0.15 and
\* one indicator; from 2.0 it adds nothing.
C16_EntropyRuleWithFloor ==
    (pc = "done" /\ OnlyEntropyRule) =>
      LET entropy == measurements.memory_address_entropy
      IN  /\ entropy < 500 =>
                verdict.confidence_score = 0 /\ verdict.vm_indicators = 0
          /\ (entropy >= 500 /\ entropy < 2 * SCALE) =>
                verdict.confidence_score = 150 /\ verdict.vm_indicators = 1
          /\ entropy >= 2 * SCALE =>
                verdict.confidence_score = 0 /\ verdict.vm_indicators = 0

\* An entropy just below the floor, classified.
C16_Witness ==
    /\ pc = "done"
    /\ OnlyEntropyRule
    /\ measurements.memory_address_entropy = 499
    /\ verdict.confidence_score = 0
    /\ verdict.vm_indicators = 0

\* What measure_cache_behavior has to store for a cache-friendly mean and
\* a cache-unfriendly mean (nanoseconds): the pair (access ratio, miss
\* ratio) of C17.
ExpectedCacheRatios(friendly, unfriendly) ==
    IF friendly <= 0
    THEN <<1 * SCALE, 0>>
    ELSE <<Quot(unfriendly * SCALE * SCALE, friendly * SCALE),
           Quot((unfriendly - friendly) * SCALE * SCALE, friendly * SCALE)>>

\* C17: when the cache-friendly mean is <= 0 the probe stores exactly
\* cache_access_ratio = 1.0 and cache_miss_ratio = 0.0, otherwise
\* unfriendly/friendly and (unfriendly - friendly)/friendly: for every pair
\* of means the probe can store that pair's ratios, and it stores nothing
\* else; no path divides by zero.
C17_CacheRatioFallback ==
    /\ [](pc = "cache_ratio" =>
            \A friendly \in FriendlyMeans, unfriendly \in UnfriendlyMeans :
              ENABLED (/\ measure_cache_behavior_ratio
                       /\ <<measurements'.cache_access_ratio,
                            measurements'.cache_miss_ratio>>
                            = ExpectedCacheRatios(friendly, unfriendly)))
    /\ [][pc = "cache_ratio" =>
            \E friendly \in FriendlyMeans, unfriendly \in UnfriendlyMeans :
              <<measurements'.cache_access_ratio, measurements'.cache_miss_ratio>>
                = ExpectedCacheRatios(friendly, unfriendly)]_vars

\* The probe has stored the ratios of a friendly mean of 2 ns and an
\* unfriendly mean of 4 ns.
C17_Witness ==
    /\ pc = "mem_alloc"
    /\ writes["cache_access_ratio"] = 1
    /\ measurements.cache_access_ratio = 2 * SCALE
    /\ measurements.cache_miss_ratio = 1 * SCALE

\* ------------------------------------------ the statistics on their inputs

\* The longest sample sequence given to the statistics.
MaxSamples == 4
\* The samples (nanoseconds); a difference of two clock readings can be 0.
SampleValues == {0, 1, 3}

SampleSequences ==
    UNION {[1..n -> {v * SCALE : v \in SampleValues}] : n \in 0..MaxSamples}

\* A timing probe that has filled its buffer, for a buffer of any length
\* up to MaxSamples and any samples.
StatInit ==
    /\ pc = "basic_stats"
    /\ test = 0
    /\ i = 0
    /\ timings \in SampleSequences
    /\ heap = {"timings"}
    /\ measurements = ZeroMeasurements
    /\ writes = [f \in Fields |-> 0]
    /\ thread_counter = 0
    /\ thread_mutex = NoOwner
    /\ threads = [s \in Slots |-> Indeterminate]
    /\ worker = [s \in Slots |-> "none"]
    /\ reg = [s \in Slots |-> 0]
    /\ child = [s \in Slots |-> "none"]
    /\ address_values = << >>
    /\ verdict = [confidence_score |-> 0, vm_indicators |-> 0, result |-> "none"]

\* The statistics of measure_timing_basic over the samples in timings:
\* mean, variance, std_dev, and the five assignments.
measure_timing_basic_stats ==
    /\ pc = "basic_stats"
    /\ LET fields == ProbeFields("timing_basic", FeatureRecord(timings, Len(timings)))
       IN  /\ measurements' = Assign(measurements, fields)
           /\ writes' = Assigned(writes, DOMAIN fields)
    /\ pc' = "basic_free"
    /\ UNCHANGED <<test, i, timings, heap, threadVars, child, address_values, verdict>>

\* free(timings); and measure_timing_basic returns.
measure_timing_basic_free ==
    /\ pc = "basic_free"
    /\ heap' = heap \ {"timings"}
    /\ timings' = NoBuffer
    /\ pc' = "thr_alloc"
    /\ UNCHANGED <<test, i, resultVars, threadVars, child, address_values, verdict>>

StatNext == measure_timing_basic_stats \/ measure_timing_basic_free

StatSpec == StatInit /\ [][StatNext]_vars

\* C18: degenerate sample counts: the variance is 0.0 for fewer than 2
\* samples, the skewness 0.0 for fewer than 3 samples or a std_dev <= 0,
\* the kurtosis 0.0 for fewer than 4 samples or a std_dev <= 0, the
\* coefficient of variation 0.0 for a mean of 0; this for the statistics
\* stored for the samples and for the functions called with any std_dev
\* <= 0 or with a mean of 0. No case divides by zero.
C18_DegenerateCounts ==
    pc = "basic_free" =>
      LET count == Len(timings)
          mean == measurements.timing_basic_mean
          std_dev == calculate_std_dev(measurements.timing_basic_variance)
      IN  /\ count < 2 => measurements.timing_basic_variance = 0
          /\ measurements.timing_basic_variance >= 0
          /\ (count < 3 \/ std_dev <= 0) => measurements.timing_basic_skewness = 0
          /\ (count < 4 \/ std_dev <= 0) => measurements.timing_basic_kurtosis = 0
          /\ mean = 0 => measurements.timing_basic_cv = 0
          /\ \A sd \in {-1 * SCALE, 0} :
               /\ calculate_skewness(timings, count, mean, sd) = 0
               /\ calculate_kurtosis(timings, count, mean, sd) = 0
          /\ \A sd \in {0, 1 * SCALE} : calculate_cv(sd, 0) = 0
          /\ count < 3 => calculate_skewness(timings, count, mean, 1 * SCALE) = 0
          /\ count < 4 => calculate_kurtosis(timings, count, mean, 1 * SCALE) = 0
          /\ count < 2 => calculate_variance(timings, count, 1 * SCALE) = 0

\* Three samples that are not all equal: a skewness, and no kurtosis yet.
C18_Witness ==
    /\ pc = "basic_free"
    /\ Len(timings) = 3
    /\ measurements.timing_basic_variance > 0
    /\ measurements.timing_basic_skewness # 0
    /\ measurements.timing_basic_kurtosis = 0

\* C19: measure_memory_entropy first stores the entropy of the raw
\* addresses; the stored value is replaced, by the entropy of the
\* differences of consecutive addresses, if and only if the first value is
\* below 1.0 and the buffer of the differences can be allocated; a first
\* value >= 1.0 is the one reported.
C19_EntropyFallback ==
    /\ [][pc = "mem_collect" =>
            \E hist_ok \in BOOLEAN :
              measurements'.memory_address_entropy =
                calculate_entropy(address_values', NumAddresses, hist_ok)]_vars
    /\ [][pc = "mem_fallback" =>
            LET first == measurements.memory_address_entropy
                diffs == [k \in 1..(NumAddresses - 1) |->
                            address_values[k + 1] - address_values[k]]
                replaced == writes'["memory_address_entropy"] #
                              writes["memory_address_entropy"]
            IN  /\ replaced => first < 1 * SCALE
                /\ replaced =>
                     \E hist_ok \in BOOLEAN :
                       measurements'.memory_address_entropy =
                         calculate_entropy(diffs, NumAddresses - 1, hist_ok)
                /\ ~replaced => measurements'.memory_address_entropy = first]_vars
    /\ [](pc = "mem_fallback" =>
            (measurements.memory_address_entropy < 1 * SCALE <=>
               ENABLED (/\ measure_memory_entropy_fallback
                        /\ writes'["memory_address_entropy"] = 2)))

\* A first estimate below 1.0 was replaced by an entropy of the
\* differences that is not below 1.0.
C19_Witness ==
    /\ pc = "overall"
    /\ writes["memory_address_entropy"] = 2
    /\ measurements.memory_address_entropy >= 1 * SCALE

\* The fields each step of main owns, in the order of Probes: the six
\* probes, calculate_overall_metrics, analyze_vm_indicators, the end.
OwnFields ==
    << FieldsOf("timing_basic"),
       FieldsOf("scheduling_thread") \cup {"physical_machine_index"},
       FieldsOf("scheduling_multiproc"),
       FieldsOf("timing_consecutive"),
       {"cache_access_ratio", "cache_miss_ratio"},
       {"memory_address_entropy"},
       {"overall_timing_cv", "overall_scheduling_cv"},
       {},
       {} >>

\* The records a timing probe can store from n samples of its own buffer.
StoredBy(prefix, sequences, n) ==
    {ProbeFields(prefix, FeatureRecord(values, n)) : values \in sequences}

\* The step stores one of the records of the set R in measurements.
Stores(R) == \E r \in R : \A f \in DOMAIN r : measurements'[f] = r[f]

\* C20: every probe writes only its own fields and leaves every other
\* field as it was; calculate_overall_metrics writes only the two overall
\* CVs, analyze_vm_indicators writes nothing. What a probe stores is
\* determined by its own samples (for the memory probe also by its own
\* field), whatever the other probes have stored.
C20_ProbesWriteOwnFields ==
    /\ [][\A f \in Fields :
            (measurements'[f] # measurements[f] \/ writes'[f] # writes[f])
              => f \in OwnFields[ProbeOf(pc)]]_vars
    /\ [][/\ pc = "basic_run" =>
               Stores(StoredBy("timing_basic", Samples(timings, BasicTests), BasicTests))
          /\ pc = "thr_stats" =>
               Stores({r @@ ("physical_machine_index" :>
                               calculate_pmi_safe(r.scheduling_thread_kurtosis,
                                                  r.scheduling_thread_skewness,
                                                  r.scheduling_thread_variance)) :
                         r \in StoredBy("scheduling_thread",
                                        Samples(timings, ThreadTests), ThreadTests)})
          /\ pc = "mp_stats" =>
               Stores(StoredBy("scheduling_multiproc",
                               Samples(timings, ProcTests), ProcTests))
          /\ pc = "cons_run" =>
               Stores(StoredBy("timing_consecutive",
                               [1..ConsecTests -> TrialMeans], ConsecTests))
          /\ pc = "cache_ratio" =>
               \E friendly \in FriendlyMeans, unfriendly \in UnfriendlyMeans :
                 <<measurements'.cache_access_ratio, measurements'.cache_miss_ratio>>
                   = ExpectedCacheRatios(friendly, unfriendly)
          /\ pc = "mem_collect" =>
               \E hist_ok \in BOOLEAN :
                 measurements'.memory_address_entropy =
                   calculate_entropy(address_values', NumAddresses, hist_ok)
          /\ pc = "mem_fallback" =>
               \/ measurements'.memory_address_entropy = measurements.memory_address_entropy
               \/ \E hist_ok \in BOOLEAN :
                    measurements'.memory_address_entropy =
                      calculate_entropy(Differences(address_values),
                                        NumAddresses - 1, hist_ok)]_vars

\* Every probe and calculate_overall_metrics have stored their fields.
C20_Witness ==
    /\ pc = "analyze"
    /\ \A f \in Fields : writes[f] >= 1
    /\ measurements.timing_basic_mean # measurements.scheduling_multiproc_mean

\* C21: every pthread_join main executes is applied to the handle of a
\* thread created earlier in the same trial and not joined yet (the call
\* returns when that thread has returned); main does not join the slot of
\* a pthread_create that failed.
C21_JoinOnlyCreatedThreads ==
    [][(pc = "thr_join" /\ (pc' # pc \/ i' # i)) =>
         /\ threads[i] # Indeterminate
         /\ worker[threads[i]] = "exited"
         /\ worker'[threads[i]] = "joined"]_vars

\* C22: a forked child only runs process_workload and exits: its step
\* changes its own state to exited and nothing else (no sample, no field
\* of measurements, no position of main, no other child, no new child).
\* Only a fork() of main creates a child, one per call and in the slot of
\* the call, so at most THREAD_COUNT children are created per trial and
\* exist at any moment.
C22_ChildOnlyRunsWorkload ==
    /\ [][\A c \in Slots :
            (child[c] = "forked" /\ child'[c] # child[c]) =>
              /\ child'[c] = "zombie"
              /\ \A s \in Slots \ {c} : child'[s] = child[s]
              /\ UNCHANGED <<pc, test, i, timings, heap, measurements, writes,
                             thread_counter, thread_mutex, threads, worker, reg,
                             address_values, verdict>>]_vars
    /\ [][\A s \in Slots :
            (child[s] # "forked" /\ child'[s] = "forked") =>
              pc = "mp_fork" /\ s = i /\ child[s] = "none" /\ (pc' # pc \/ i' # i)]_vars
    /\ [](Cardinality({s \in Slots : child[s] # "none"}) <= THREAD_COUNT)
    /\ [](\A s \in Slots : child[s] \in {"none", "forked", "zombie", "reaped"})

\* A child has run process_workload and exited while main is still in the
\* loop over fork(); the sample of the trial is not stored.
C22_Witness ==
    /\ pc = "mp_fork"
    /\ \E c \in Slots : child[c] = "zombie"
    /\ timings[test + 1] = Unset

====
